---- MODULE Spec2Model ----
(***************************************************************************)
(* A model of server.js, the Akash deployer: the POST / handler, the       *)
(* Admission Gate (gpuAvailable), the Redis-backed queue (enqueue,         *)
(* dequeue, clearQueue), the Job Orchestrator (runJob), the Queue Worker   *)
(* (processQueueOnce) and the admin queue-clear endpoint.                  *)
(*                                                                         *)
(* Node runs one handler at a time and switches only at an await on real   *)
(* I/O, so every action below is one such uninterrupted stretch of code:   *)
(* from the arrival of an I/O result to the issue of the next I/O call.    *)
(* An await on a promise that needs no I/O (gpuAvailable with the check    *)
(* disabled, dequeue without a store) is a microtask and cannot be         *)
(* interleaved with another handler, so it stays inside the action.        *)
(* The two polling loops of runJob touch only the run's own locals and     *)
(* the marketplace, so each loop is one action that runs the loop over a   *)
(* script of marketplace answers.                                          *)
(* The store, when configured, is taken to answer every call.              *)
(***************************************************************************)
EXTENDS Integers, Sequences, FiniteSets, TLC

VARIABLES env, queue, inFlight, now, proc, timers, last, admin, fifo, posts

vars == <<env, queue, inFlight, now, proc, timers, last, admin, fifo, posts>>

(* ------------------------------ bounds -------------------------------- *)
NumReq == 1
NumTicks == 2
MaxClock == 1
MaxTimers == 1
MaxOps == 4
MaxPosts == 1
MaxJobs == 2

(* ------------------------- program constants -------------------------- *)
LEASE_ATTEMPTS == 30
URI_ATTEMPTS == 45
DEFAULT_MINUTES == 60
TIMEOUT_MAX_SEC == 2147483

Max(a, b) == IF a >= b THEN a ELSE b

(* --------------------------- configuration ---------------------------- *)
DRY_RUN == env.DRY_RUN
DISABLE_BUSY_CHECK == env.DISABLE_BUSY_CHECK
BUSY_CHECK == env.BUSY_CHECK
ENABLE_QUEUE == env.ENABLE_QUEUE
redis == env.redis
PROVIDER == env.PROVIDER
MNEMONIC == env.MNEMONIC
NOTIFY_URL == env.NOTIFY_URL
ADMIN_TOKEN == env.ADMIN_TOKEN

TARGET_PROVIDER == "akash1prov"

Envs ==
  [DRY_RUN : BOOLEAN, DISABLE_BUSY_CHECK : BOOLEAN, BUSY_CHECK : {"", "http://gpu/busy"},
   ENABLE_QUEUE : BOOLEAN, redis : BOOLEAN, PROVIDER : {"", TARGET_PROVIDER},
   MNEMONIC : {"", "seed words"}, NOTIFY_URL : {"", "http://app/api/notify"},
   ADMIN_TOKEN : {"", "s3cret"}]

(* ------------------------- JavaScript values -------------------------- *)
Undefined == [k |-> "undefined", n |-> 0, s |-> ""]
NaN == [k |-> "nan", n |-> 0, s |-> ""]
Num(n) == [k |-> "number", n |-> n, s |-> ""]
Str(s) == [k |-> "string", n |-> 0, s |-> s]

\* Number(v) for the values a JSON body can carry in "minutes"
NumberOf(v) ==
  IF v.k = "number" THEN v
  ELSE IF v.k = "string" THEN (IF v.s = "30" THEN Num(30) ELSE NaN)
  ELSE NaN

\* Math.max(1, x): NaN if x is NaN
MathMax1(x) == IF x.k = "nan" THEN NaN ELSE Num(Max(1, x.n))

\* setTimeout(fn, ms) with ms = x * 60 * 1000: Node sets the delay to 1 ms when
\* it is NaN, below 1 or above 2^31 - 1 ms.  x * 60 is kept in seconds so that the
\* comparison with 2^31 - 1 ms stays inside 32 bits: s * 1000 > 2147483647 exactly
\* when s > 2147483.
TimeoutDelayMs(x) ==
  IF x.k = "nan" THEN 1
  ELSE IF x.n * 60 > TIMEOUT_MAX_SEC THEN 1
  ELSE IF x.n * 60 * 1000 < 1 THEN 1
  ELSE x.n * 60 * 1000

TeardownDelayMs(minutes) == TimeoutDelayMs(MathMax1(NumberOf(minutes)))

\* Date.now(), in milliseconds, of a clock that the model advances in seconds
DateNow == now * 1000

(* ------------------------------- jobs --------------------------------- *)
ALLOWED == {"whisper", "sd", "llama"}

NoJob == [product |-> "", minutes |-> Undefined, email |-> "", idem |-> "", at |-> 0]

\* const { product, minutes = 60, customer = {}, payment = {} } = req.body || {}
Destructure(body) ==
  [product |-> body.product,
   minutes |-> IF body.minutes = Undefined THEN Num(DEFAULT_MINUTES) ELSE body.minutes,
   email |-> body.email, idem |-> body.idem, at |-> 0]

(* --------------------------- the Redis list --------------------------- *)
NullRaw == [json |-> FALSE, val |-> NoJob]
JSONstringify(job) == [json |-> TRUE, val |-> job]
\* JSON.parse: a value, or ok = FALSE where it throws
JSONparse(raw) == [ok |-> raw.json, val |-> IF raw.json THEN raw.val ELSE NoJob]

\* rpush answers with the length of the list after the push
RPush(list, raw) == [list |-> Append(list, raw), reply |-> Len(list) + 1]
LLen(list) == Len(list)
\* a pop from the tail (rpop) in place of the head
LPop_Tail(list) ==
  IF list = <<>> THEN [raw |-> NullRaw, isNull |-> TRUE, list |-> list]
  ELSE [raw |-> list[Len(list)], isNull |-> FALSE, list |-> SubSeq(list, 1, Len(list) - 1)]

\* a read of the head that leaves it in the list (lindex 0)
LPop_Peek(list) ==
  IF list = <<>> THEN [raw |-> NullRaw, isNull |-> TRUE, list |-> list]
  ELSE [raw |-> Head(list), isNull |-> FALSE, list |-> list]

LPop(list) ==
  IF list = <<>> THEN [raw |-> NullRaw, isNull |-> TRUE, list |-> list]
  ELSE [raw |-> Head(list), isNull |-> FALSE, list |-> Tail(list)]

\* dequeue(), after lpop answered: the job, or null
Dequeued(popped) ==
  IF popped.isNull THEN [isNull |-> TRUE, job |-> NoJob]
  ELSE LET j == JSONparse(popped.raw)
       IN IF j.ok THEN [isNull |-> FALSE, job |-> j.val] ELSE [isNull |-> TRUE, job |-> NoJob]

(* ----------------------------- processes ------------------------------ *)
ReqIds == {<<"req", i>> : i \in 1..NumReq}
TickIds == {<<"tick", i>> : i \in 1..NumTicks}
ProcIds == ReqIds \cup TickIds
IsTick(p) == p[1] = "tick"

NoLease == [provider |-> "", gseq |-> 0, oseq |-> 0]

Idle ==
  [pc |-> "idle", job |-> NoJob, avail |-> "unknown", calls |-> {}, dseq |-> -1,
   leases |-> <<>>, lease |-> NoLease, leasePolls |-> 0, uriPolls |-> 0, uri |-> <<>>,
   manifestTo |-> "", rpushReply |-> 0]

RunPcs == {"key", "create", "lease", "manifest", "uri", "notify"}

\* what a step hands back: the process record, and how the handler ended, if it did
\*   end = "no"    the handler awaits its next I/O
\*         "resp"  POST / answered without calling runJob
\*         "noop"  processQueueOnce returned before setting inFlight
\*         "ok"    runJob returned
\*         "throw" runJob threw
Going(rec) ==
  [rec |-> rec, end |-> "no", status |-> 0, tag |-> "", error |-> "", position |-> 0, timer |-> FALSE]
Resp(rec, status, tag, error, position) ==
  [rec |-> rec, end |-> "resp", status |-> status, tag |-> tag, error |-> error,
   position |-> position, timer |-> FALSE]
Noop(rec) ==
  [rec |-> rec, end |-> "noop", status |-> 0, tag |-> "noop", error |-> "", position |-> 0, timer |-> FALSE]
Returned(rec, timer) ==
  [rec |-> rec, end |-> "ok", status |-> 200, tag |-> "ok", error |-> "", position |-> 0, timer |-> timer]
Thrown(rec, error) ==
  [rec |-> rec, end |-> "throw", status |-> 500, tag |-> "error", error |-> error,
   position |-> 0, timer |-> FALSE]

NoOutput == [kind |-> "none", p |-> <<"none", 0>>, end |-> "no", status |-> 0, tag |-> "", error |-> "",
             position |-> 0, timer |-> FALSE, rec |-> Idle]

\* the response sent (res.status().json()) or the line logged when a handler ends
Output(p, r) ==
  [kind |-> IF IsTick(p) THEN "worker" ELSE "post", p |-> p, end |-> r.end,
   status |-> IF IsTick(p) THEN 0 ELSE r.status,
   tag |-> IF IsTick(p) /\ r.end = "ok" THEN "dequeue_done"
           ELSE IF IsTick(p) /\ r.end = "throw" THEN "queue_run_error" ELSE r.tag,
   error |-> r.error, position |-> r.position, timer |-> r.timer, rec |-> r.rec]

Called(rec, c) == [rec EXCEPT !.calls = @ \cup {c}]

(* ------------------------- the Admission Gate ------------------------- *)
\* what the probe can answer: a failed fetch, a body that is not JSON, or a JSON
\* body with some status
ProbeAnswers ==
  {[kind |-> "network_error", status |-> ""], [kind |-> "malformed", status |-> ""],
   [kind |-> "json", status |-> "available"], [kind |-> "json", status |-> "busy"],
   [kind |-> "json", status |-> ""]}

\* gpuAvailable() needs no probe
GateOpen == DISABLE_BUSY_CHECK \/ BUSY_CHECK = ""

\* a gate that lets requests through when the probe fails (fail-open)
gpuAvailable_FailOpen(answer) == answer.kind # "json" \/ answer.status = "available"

\* gpuAvailable(), once the probe answered
gpuAvailable(answer) == answer.kind = "json" /\ answer.status = "available"

(* ------------------------- the Job Orchestrator ----------------------- *)
\* a placeholder URI without the product
DryUri_NoProduct(product) ==
  <<"https://demo.indianode.com/job/", ToString(DateNow % 1000000)>>

\* `https://demo.indianode.com/job/${product}-${Date.now() % 1e6}`
DryUri(product) ==
  <<"https://demo.indianode.com/job/", product, "-", ToString(DateNow % 1000000)>>

\* notifyLive() issues its fetch
NotifyFetches(email, uri) == NOTIFY_URL # "" /\ email # "" /\ uri # <<>>

\* step 6 and the return of a real run
Finish(rec) == Returned(Called(rec, "setTimeout"), TRUE)

\* runJob(job) up to its first await on I/O
RunJobEnter(rec0) ==
  LET rec == Called(rec0, "runJob")
  IN IF DRY_RUN
       THEN LET r == [rec EXCEPT !.uri = DryUri(rec.job.product)]
            IN IF r.job.email # "" /\ NotifyFetches(r.job.email, r.uri)
                 THEN Going([Called(r, "notify") EXCEPT !.pc = "notify"])
                 ELSE Returned(r, FALSE)
     ELSE IF PROVIDER = "" THEN Thrown(rec, "PROVIDER_ADDR not set")
     ELSE Going([Called(rec, "sh:keys-show") EXCEPT !.pc = "key"])

\* how the key lookups of ensureAkashKey can go
KeyAnswers == {"found", "missing_import_fails", "missing_imported_show_fails", "missing_imported"}

\* ensureAkashKey() that runs the import before it looks at MNEMONIC
RunKeyStep_ImportFirst(rec, answer) ==
  IF answer # "found" /\ MNEMONIC = ""
    THEN Thrown(Called(rec, "sh:keys-add"), "AKASH_MNEMONIC missing and key not found")
  ELSE IF answer = "missing_import_fails"
    THEN Thrown(Called(rec, "sh:keys-add"), "exec_error")
  ELSE IF answer = "missing_imported_show_fails"
    THEN Thrown(Called(Called(rec, "sh:keys-add"), "sh:keys-show-2"), "exec_error")
  ELSE LET owned == IF answer = "found" THEN rec
                    ELSE Called(Called(rec, "sh:keys-add"), "sh:keys-show-2")
           r == [owned EXCEPT !.dseq = DateNow \div 1000]
       IN IF r.job.product \notin ALLOWED THEN Thrown(r, "invalid_product")
          ELSE Going([Called(r, "readFile") EXCEPT !.pc = "create"])

\* ensureAkashKey() from the answer of the first lookup on, then dseq and sdlFor
RunKeyStep(rec, answer) ==
  IF answer # "found" /\ MNEMONIC = ""
    THEN Thrown(rec, "AKASH_MNEMONIC missing and key not found")
  ELSE IF answer = "missing_import_fails"
    THEN Thrown(Called(rec, "sh:keys-add"), "exec_error")
  ELSE IF answer = "missing_imported_show_fails"
    THEN Thrown(Called(Called(rec, "sh:keys-add"), "sh:keys-show-2"), "exec_error")
  ELSE LET owned == IF answer = "found" THEN rec
                    ELSE Called(Called(rec, "sh:keys-add"), "sh:keys-show-2")
           r == [owned EXCEPT !.dseq = DateNow \div 1000]
       IN IF r.job.product \notin ALLOWED THEN Thrown(r, "invalid_product")
          ELSE Going([Called(r, "readFile") EXCEPT !.pc = "create"])

\* how reading the SDL, writing /tmp/<dseq>.yaml and "tx deployment create" can go
CreateAnswers == {"read_fails", "write_fails", "create_fails", "created"}

RunCreateStep(rec, answer) ==
  IF answer = "read_fails" THEN Thrown(rec, "ENOENT")
  ELSE IF answer = "write_fails" THEN Thrown(Called(rec, "writeFile"), "EACCES")
  ELSE IF answer = "create_fails"
    THEN Thrown(Called(Called(rec, "writeFile"), "sh:create"), "exec_error")
  ELSE Going([Called(Called(rec, "writeFile"), "sh:create") EXCEPT !.pc = "lease"])

\* one answer of "query market lease list": sh failed (caught, ""), output that is
\* not JSON, or JSON whose leases carry these ids (NoLease: an entry without lease.id)
OTHER_PROVIDER == "akash1other"
LeaseId(provider) == [provider |-> provider, gseq |-> 1, oseq |-> 1]
LeaseAnswers ==
  {[kind |-> "error", leases |-> <<>>], [kind |-> "malformed", leases |-> <<>>],
   [kind |-> "json", leases |-> <<>>],
   [kind |-> "json", leases |-> <<LeaseId(OTHER_PROVIDER)>>],
   [kind |-> "json", leases |-> <<NoLease, LeaseId(OTHER_PROVIDER), LeaseId(TARGET_PROVIDER)>>],
   [kind |-> "json", leases |-> <<LeaseId(TARGET_PROVIDER)>>]}

\* the first lease listed, whatever its provider
RECURSIVE FindLease_First(_, _)
FindLease_First(ids, provider) ==
  IF ids = <<>> THEN NoLease
  ELSE IF Head(ids) # NoLease THEN Head(ids)
  ELSE FindLease_First(Tail(ids), provider)

\* (j.leases || []).map(x => x.lease?.id).find(id => id?.provider === PROVIDER)
RECURSIVE FindLease(_, _)
FindLease(ids, provider) ==
  IF ids = <<>> THEN NoLease
  ELSE IF Head(ids) # NoLease /\ Head(ids).provider = provider THEN Head(ids)
  ELSE FindLease(Tail(ids), provider)

\* the lease one answer yields: JSON.parse throws on "" and on output that is not JSON
LeaseOf(answer, provider) ==
  IF answer.kind = "json" THEN FindLease(answer.leases, provider) ELSE NoLease

\* a script of marketplace answers: `before` up to attempt `at`, `then` from it on
ScriptAnswer(script, attempt) == IF attempt < script.at THEN script.before ELSE script.then

\* the loop with i <= 30 in place of i < 30
RECURSIVE LeaseLoop_OffByOne(_, _)
LeaseLoop_OffByOne(i, script) ==
  IF i > LEASE_ATTEMPTS THEN [lease |-> NoLease, polls |-> i, leases |-> <<>>]
  ELSE LET out == ScriptAnswer(script, i + 1)
           found == LeaseOf(out, PROVIDER)
       IN IF found # NoLease THEN [lease |-> found, polls |-> i + 1, leases |-> out.leases]
          ELSE LeaseLoop_OffByOne(i + 1, script)

\* for (let i=0;i<30;i++) { ...; if (lease) break; ...; await wait(4000) }
RECURSIVE LeaseLoop(_, _)
LeaseLoop(i, script) ==
  IF i >= LEASE_ATTEMPTS THEN [lease |-> NoLease, polls |-> i, leases |-> <<>>]
  ELSE LET out == ScriptAnswer(script, i + 1)
           found == LeaseOf(out, PROVIDER)
       IN IF found # NoLease THEN [lease |-> found, polls |-> i + 1, leases |-> out.leases]
          ELSE LeaseLoop(i + 1, script)

RunLeaseStep(rec, script) ==
  LET loop == LeaseLoop(0, script)
      r == [Called(rec, "sh:lease-list") EXCEPT !.lease = loop.lease, !.leasePolls = loop.polls,
                                               !.leases = loop.leases]
  IN IF loop.lease = NoLease THEN Thrown(r, "no_lease_from_provider")
     ELSE Going([Called(r, "sh:send-manifest") EXCEPT !.pc = "manifest",
                                                     !.manifestTo = loop.lease.provider])

\* a run that goes on to the status polls whether the manifest was sent or not
RunManifestStep_Ignore(rec, sent) ==
  Going([rec EXCEPT !.pc = "uri", !.leasePolls = 0, !.leases = <<>>])

\* the loop's i and j are gone once the loop is left
RunManifestStep(rec, sent) ==
  IF sent THEN Going([rec EXCEPT !.pc = "uri", !.leasePolls = 0, !.leases = <<>>])
  ELSE Thrown(rec, "exec_error")

\* one answer of "provider lease-status": the uris of the first service reported
SERVICE_URI == "http://svc.provider"
StatusAnswers ==
  {[kind |-> "error", uris |-> <<>>], [kind |-> "malformed", uris |-> <<>>],
   [kind |-> "json", uris |-> <<>>], [kind |-> "json", uris |-> <<SERVICE_URI, "http://second">>]}

UriOf(answer) ==
  IF answer.kind = "json" /\ Len(answer.uris) > 0 THEN <<answer.uris[1]>> ELSE <<>>

\* for (let i=0;i<45;i++) { ...; if (svc?.uris?.length) { uri = svc.uris[0]; break; } ... }
RECURSIVE UriLoop(_, _)
UriLoop(i, script) ==
  IF i >= URI_ATTEMPTS THEN [uri |-> <<>>, polls |-> i]
  ELSE LET found == UriOf(ScriptAnswer(script, i + 1))
       IN IF found # <<>> THEN [uri |-> found, polls |-> i + 1]
          ELSE UriLoop(i + 1, script)

\* a run that throws when the polls end without an address
RunUriStep_Hard(rec, script) ==
  LET loop == UriLoop(0, script)
      r == [Called(rec, "sh:lease-status") EXCEPT !.uri = loop.uri, !.uriPolls = loop.polls]
  IN IF r.uri = <<>> THEN Thrown(r, "no_uri_yet")
     ELSE IF r.job.email # "" /\ NotifyFetches(r.job.email, r.uri)
       THEN Going([Called(r, "notify") EXCEPT !.pc = "notify"])
       ELSE Finish(r)

\* step 4 of runJob, the warning of line 188 and the guard of step 5
RunUriStep(rec, script) ==
  LET loop == UriLoop(0, script)
      r == [Called(rec, "sh:lease-status") EXCEPT !.uri = loop.uri, !.uriPolls = loop.polls]
  IN IF r.uri # <<>> /\ r.job.email # "" /\ NotifyFetches(r.job.email, r.uri)
       THEN Going([Called(r, "notify") EXCEPT !.pc = "notify"])
       ELSE Finish(r)

\* the fetch of notifyLive answered or failed: either way runJob goes on
RunNotifyStep(rec) == IF DRY_RUN THEN Returned(rec, FALSE) ELSE Finish(rec)

(* ------------------------ POST / and the worker ----------------------- *)
\* enqueue(job) up to its first await: throws without a store, else issues rpush
EnqueueEnter(rec) ==
  IF ~redis THEN Resp(rec, 503, "queue_unavailable", "queue_not_configured", 0)
  ELSE Going([Called([rec EXCEPT !.job.at = DateNow], "rpush") EXCEPT !.pc = "rpush"])

\* POST / that queues whenever the gate is shut, whatever ENABLE_QUEUE says
AfterGatePost_AlwaysQueue(rec, available) ==
  LET r == [rec EXCEPT !.avail = IF available THEN "yes" ELSE "no"]
  IN IF ~available THEN EnqueueEnter(r) ELSE RunJobEnter(r)

\* POST / from the answer of the gate on
AfterGatePost(rec, available) ==
  LET r == [rec EXCEPT !.avail = IF available THEN "yes" ELSE "no"]
  IN IF ~available
       THEN IF ENABLE_QUEUE THEN EnqueueEnter(r) ELSE Resp(r, 409, "busy", "", 0)
       ELSE RunJobEnter(r)

\* processQueueOnce from the answer of the gate on: dequeue() without a store is null
AfterGateTick(rec, available) ==
  LET r == [rec EXCEPT !.avail = IF available THEN "yes" ELSE "no"]
  IN IF ~available THEN Noop(r)
     ELSE IF ~redis THEN Noop(r)
     ELSE Going([Called(r, "lpop") EXCEPT !.pc = "lpop"])

AfterGate(p, rec, available) ==
  IF IsTick(p) THEN AfterGateTick(rec, available) ELSE AfterGatePost(rec, available)

\* gpuAvailable() called: answers at once, or issues the probe
GateEnter(p, rec) ==
  IF GateOpen THEN AfterGate(p, rec, TRUE)
  ELSE Going([Called(rec, "probe") EXCEPT !.pc = "gate"])

\* POST / without the check of the product
PostStep_NoValidation(p, body) == GateEnter(p, [Idle EXCEPT !.job = Destructure(body)])

PostStep(p, body) ==
  LET rec == [Idle EXCEPT !.job = Destructure(body)]
  IN IF rec.job.product \notin ALLOWED THEN Resp(rec, 400, "invalid_product", "invalid_product", 0)
     ELSE GateEnter(p, rec)

\* a tick without "if (inFlight) return"
TickStep_NoFlagCheck(p) ==
  IF ~ENABLE_QUEUE THEN Noop(Idle) ELSE GateEnter(p, Idle)

\* processQueueOnce() up to the gate
TickStep(p) ==
  IF ~ENABLE_QUEUE THEN Noop(Idle)
  ELSE IF inFlight THEN Noop(Idle)
  ELSE GateEnter(p, Idle)

\* the teardown that step 6 of runJob schedules
Teardown(rec) == [dseq |-> rec.dseq, delay |-> TeardownDelayMs(rec.job.minutes)]

\* the effect of a step with "inFlight = false" after the call instead of in a finally:
\* a run that throws leaves the flag set
Apply_NoFinally(p, r, entered) ==
  /\ r.timer => Len(timers) < MaxTimers
  /\ proc' = [proc EXCEPT ![p] = IF r.end = "no" THEN r.rec ELSE Idle]
  /\ last' = IF r.end = "no" THEN NoOutput ELSE Output(p, r)
  /\ timers' = IF r.timer THEN Append(timers, Teardown(r.rec)) ELSE timers
  /\ inFlight' = IF IsTick(p) /\ r.end = "ok" THEN FALSE
                 ELSE IF entered THEN TRUE ELSE inFlight

\* the effect of a step with no "inFlight = false" at all
Apply_NoRelease(p, r, entered) ==
  /\ r.timer => Len(timers) < MaxTimers
  /\ proc' = [proc EXCEPT ![p] = IF r.end = "no" THEN r.rec ELSE Idle]
  /\ last' = IF r.end = "no" THEN NoOutput ELSE Output(p, r)
  /\ timers' = IF r.timer THEN Append(timers, Teardown(r.rec)) ELSE timers
  /\ inFlight' = IF entered THEN TRUE ELSE inFlight

\* the effect of a step of process p on the shared state; `entered` says that the
\* step ran "inFlight = true" (line 283)
Apply(p, r, entered) ==
  /\ r.timer => Len(timers) < MaxTimers
  /\ proc' = [proc EXCEPT ![p] = IF r.end = "no" THEN r.rec ELSE Idle]
  /\ last' = IF r.end = "no" THEN NoOutput ELSE Output(p, r)
  /\ timers' = IF r.timer THEN Append(timers, Teardown(r.rec)) ELSE timers
  /\ inFlight' = IF IsTick(p) /\ r.end \in {"ok", "throw"} THEN FALSE
                 ELSE IF entered THEN TRUE ELSE inFlight

(* ------------------------------ actions ------------------------------- *)
\* a request arrives; posts counts the requests so far
Post(p, body) ==
  /\ proc[p].pc = "idle"
  /\ posts' = posts + 1
  /\ Apply(p, PostStep(p, body), FALSE)
  /\ UNCHANGED <<env, queue, now, admin, fifo>>

\* a tick of the interval that is set when queueing is enabled
Tick(p) ==
  /\ ENABLE_QUEUE
  /\ proc[p].pc = "idle"
  /\ Apply(p, TickStep(p), FALSE)
  /\ UNCHANGED <<env, queue, now, admin, fifo, posts>>

GateReturn(p, answer) ==
  /\ proc[p].pc = "gate"
  /\ Apply(p, AfterGate(p, proc[p], gpuAvailable(answer)), FALSE)
  /\ UNCHANGED <<env, queue, now, admin, fifo, posts>>

\* redis.rpush answered (enqueue drops the answer) and enqueue goes on to redis.llen;
\* fifo keeps what was pushed, and what was handed to runJob, since the last clear
Rpush(p) ==
  /\ proc[p].pc = "rpush"
  /\ LET pushed == RPush(queue, JSONstringify(proc[p].job))
     IN /\ queue' = pushed.list
        /\ fifo' = [fifo EXCEPT !.pushed = Append(@, proc[p].job)]
        /\ Apply(p, Going([Called(proc[p], "llen") EXCEPT !.pc = "llen",
                                                         !.rpushReply = pushed.reply]), FALSE)
  /\ UNCHANGED <<env, now, admin, posts>>

\* redis.llen answered; POST / answers "queued" with it as the position
Llen(p) ==
  /\ proc[p].pc = "llen"
  /\ Apply(p, Resp(proc[p], 200, "queued", "", LLen(queue)), FALSE)
  /\ UNCHANGED <<env, queue, now, admin, fifo, posts>>

\* redis.lpop answered; processQueueOnce returns, or sets inFlight and calls runJob
Lpop(p) ==
  /\ proc[p].pc = "lpop"
  /\ LET popped == LPop(queue)
         next == Dequeued(popped)
     IN /\ queue' = popped.list
        /\ fifo' = IF next.isNull THEN fifo ELSE [fifo EXCEPT !.popped = Append(@, next.job)]
        /\ IF next.isNull THEN Apply(p, Noop(proc[p]), FALSE)
           ELSE Apply(p, RunJobEnter([proc[p] EXCEPT !.job = next.job]), TRUE)
  /\ UNCHANGED <<env, now, admin, posts>>

RunKey(p, answer) ==
  /\ proc[p].pc = "key"
  /\ Apply(p, RunKeyStep(proc[p], answer), FALSE)
  /\ UNCHANGED <<env, queue, now, admin, fifo, posts>>

RunCreate(p, answer) ==
  /\ proc[p].pc = "create"
  /\ Apply(p, RunCreateStep(proc[p], answer), FALSE)
  /\ UNCHANGED <<env, queue, now, admin, fifo, posts>>

RunLease(p, script) ==
  /\ proc[p].pc = "lease"
  /\ Apply(p, RunLeaseStep(proc[p], script), FALSE)
  /\ UNCHANGED <<env, queue, now, admin, fifo, posts>>

RunManifest(p, sent) ==
  /\ proc[p].pc = "manifest"
  /\ Apply(p, RunManifestStep(proc[p], sent), FALSE)
  /\ UNCHANGED <<env, queue, now, admin, fifo, posts>>

RunUri(p, script) ==
  /\ proc[p].pc = "uri"
  /\ Apply(p, RunUriStep(proc[p], script), FALSE)
  /\ UNCHANGED <<env, queue, now, admin, fifo, posts>>

RunNotify(p) ==
  /\ proc[p].pc = "notify"
  /\ Apply(p, RunNotifyStep(proc[p]), FALSE)
  /\ UNCHANGED <<env, queue, now, admin, fifo, posts>>

\* the i-th pending teardown fires: "tx deployment close", closed or failed
TimerFire(i, closed) ==
  /\ i \in 1..Len(timers)
  /\ timers' = [j \in 1..(Len(timers) - 1) |-> IF j < i THEN timers[j] ELSE timers[j + 1]]
  /\ last' = [NoOutput EXCEPT !.kind = "timer", !.end = "fired",
                              !.tag = IF closed THEN "closed_deployment" ELSE "close_failed",
                              !.rec = [Idle EXCEPT !.dseq = timers[i].dseq, !.calls = {"sh:close"}]]
  /\ UNCHANGED <<env, queue, inFlight, now, proc, admin, fifo, posts>>

\* the process dies with handlers in progress and is started again: the module's
\* state is initial again (inFlight false, no handler, no timer), the store keeps
\* its list
Crash ==
  /\ \E p \in ProcIds : proc[p].pc # "idle"
  /\ proc' = [p \in ProcIds |-> Idle]
  /\ inFlight' = FALSE
  /\ timers' = <<>>
  /\ last' = [NoOutput EXCEPT !.kind = "crash"]
  /\ UNCHANGED <<env, queue, now, admin, fifo, posts>>

ClockTick ==
  /\ now < MaxClock
  /\ now' = now + 1
  /\ last' = NoOutput
  /\ UNCHANGED <<env, queue, inFlight, proc, timers, admin, fifo, posts>>

(* ------------- enqueue, dequeue and the admin queue clear -------------- *)
\* an output of these operations, in the shape of `last`
QueueOutput(kind, status, tag, error, position, job) ==
  [NoOutput EXCEPT !.kind = kind, !.end = "resp", !.status = status, !.tag = tag,
                   !.error = error, !.position = position, !.rec = [Idle EXCEPT !.job = job]]

\* enqueue(job), run from call to return with no other store operation in between;
\* fifo keeps what was pushed and popped since the queue was last cleared
Enqueue(job) ==
  /\ Len(fifo.pushed) < MaxOps
  /\ IF ~redis
       THEN /\ last' = QueueOutput("enqueue", 0, "throw", "queue_not_configured", 0, job)
            /\ UNCHANGED <<queue, fifo>>
       ELSE LET pushed == RPush(queue, JSONstringify(job))
            IN /\ queue' = pushed.list
               /\ last' = QueueOutput("enqueue", 0, "return", "", LLen(pushed.list), job)
               /\ fifo' = [fifo EXCEPT !.pushed = Append(@, job)]
  /\ UNCHANGED <<env, inFlight, now, proc, timers, admin, posts>>

\* dequeue(), from call to return
Dequeue ==
  /\ IF ~redis
       THEN /\ last' = QueueOutput("dequeue", 0, "null", "", 0, NoJob)
            /\ UNCHANGED <<queue, fifo>>
       ELSE LET popped == LPop(queue)
                next == Dequeued(popped)
            IN /\ queue' = popped.list
               /\ last' = QueueOutput("dequeue", 0, IF next.isNull THEN "null" ELSE "job", "", 0, next.job)
               /\ fifo' = IF next.isNull THEN fifo ELSE [fifo EXCEPT !.popped = Append(@, next.job)]
  /\ UNCHANGED <<env, inFlight, now, proc, timers, admin, posts>>

\* the x-admin-token header of a request: absent, or a string
NoHeader == [present |-> FALSE, v |-> ""]
Header(v) == [present |-> TRUE, v |-> v]
Tokens == {NoHeader, Header(""), Header("s3cret"), Header("S3CRET"), Header("s3cre")}

\* the comparison alone, without "!ADMIN_TOKEN"
Unauthorized_NoConfigCheck(t) == ~t.present \/ t.v # ADMIN_TOKEN

\* !ADMIN_TOKEN || t !== ADMIN_TOKEN
Unauthorized(t) == ADMIN_TOKEN = "" \/ ~t.present \/ t.v # ADMIN_TOKEN

\* POST /admin/queue/clear up to its await: 401, or clearQueue(), which returns at
\* once without a store and else issues redis.del
AdminPost(t) ==
  /\ admin.pc = "idle"
  /\ IF Unauthorized(t)
       THEN /\ admin' = [pc |-> "idle", token |-> t]
            /\ last' = QueueOutput("admin", 401, "unauthorized", "unauthorized", 0, NoJob)
       ELSE IF ~redis
         THEN /\ admin' = [pc |-> "idle", token |-> t]
              /\ last' = QueueOutput("admin", 200, "ok", "", 0, NoJob)
         ELSE /\ admin' = [pc |-> "del", token |-> t]
              /\ last' = NoOutput
  /\ UNCHANGED <<env, queue, inFlight, now, proc, timers, fifo, posts>>

\* redis.del answered: the list is gone and the request is answered { ok: true }
AdminDel ==
  /\ admin.pc = "del"
  /\ queue' = <<>>
  /\ fifo' = [pushed |-> <<>>, popped |-> <<>>]
  /\ admin' = [admin EXCEPT !.pc = "idle"]
  /\ last' = QueueOutput("admin", 200, "ok", "", 0, NoJob)
  /\ UNCHANGED <<env, inFlight, now, proc, timers, posts>>

(* ------------------------------ inputs -------------------------------- *)
Body(product, minutes, email, idem) ==
  [product |-> product, minutes |-> minutes, email |-> email, idem |-> idem]

\* request bodies: every allowed product, an unknown one and a missing one; minutes
\* absent, positive, zero, negative, large and not a number; with and without email
Bodies ==
  {Body("sd", Undefined, "", "k1"), Body("whisper", Num(30), "a@x", "k2"),
   Body("llama", Num(0), "a@x", ""), Body("sd", Num(-5), "", ""),
   Body("llama", Num(40000), "", ""), Body("whisper", Str("abc"), "", ""),
   Body("bogus", Num(30), "a@x", "k1"), Body("", Undefined, "", "")}

\* the bodies of the concurrent specification: two jobs told apart by their key
WorkerBodies == {Body("sd", Undefined, "", "k1"), Body("llama", Undefined, "", "k2")}

\* scripts of marketplace answers: the same answer at every attempt, or an answer
\* without a result up to some attempt (the second, the last) and any answer from it on
Scripts(answers, ats) ==
  {s \in [at : ats \cup {1}, before : answers, then : answers] :
     \/ s.at = 1 /\ s.before = s.then
     \/ s.at > 1 /\ s.before.kind \in {"error", "json"} /\ s.before # s.then}
LeaseScripts ==
  {s \in Scripts(LeaseAnswers, {2, LEASE_ATTEMPTS}) : s.at > 1 => LeaseOf(s.before, TARGET_PROVIDER) = NoLease}
UriScripts ==
  {s \in Scripts(StatusAnswers, {2, URI_ATTEMPTS}) : s.at > 1 => UriOf(s.before) = <<>>}

(* --------------------------- specifications --------------------------- *)
InitShared ==
  /\ queue = <<>>
  /\ inFlight = FALSE
  /\ now \in 0..MaxClock
  /\ proc = [p \in ProcIds |-> Idle]
  /\ timers = <<>>
  /\ last = NoOutput
  /\ admin = [pc |-> "idle", token |-> NoHeader]
  /\ fifo = [pushed |-> <<>>, popped |-> <<>>]
  /\ posts = 0

\* Spec: one client sends MaxPosts requests, one after the other, under every
\* configuration, at any time of the clock
Client == <<"req", 1>>

Init ==
  /\ env \in {e \in Envs : e.ADMIN_TOKEN = ""}
  /\ InitShared

Next ==
  \/ \E body \in Bodies : posts < MaxPosts /\ Post(Client, body)
  \/ \E answer \in ProbeAnswers : GateReturn(Client, answer)
  \/ Rpush(Client)
  \/ Llen(Client)
  \/ \E answer \in KeyAnswers : RunKey(Client, answer)
  \/ \E answer \in CreateAnswers : RunCreate(Client, answer)
  \/ \E script \in LeaseScripts : RunLease(Client, script)
  \/ \E sent \in BOOLEAN : RunManifest(Client, sent)
  \/ \E script \in UriScripts : RunUri(Client, script)
  \/ RunNotify(Client)
  \/ \E i \in 1..MaxTimers, closed \in BOOLEAN : TimerFire(i, closed)

Spec == Init /\ [][Next]_vars

\* SpecWorker: NumReq clients and NumTicks overlapping worker ticks, with queueing
\* on or off, on a configured store behind a probing gate; MaxJobs requests in all
WorkerEnvs ==
  {e \in Envs : /\ e.redis /\ ~e.DISABLE_BUSY_CHECK /\ e.BUSY_CHECK # ""
                /\ e.PROVIDER # "" /\ e.MNEMONIC = "" /\ e.NOTIFY_URL = ""
                /\ e.ADMIN_TOKEN = ""}

WorkerLeaseScripts == {s \in LeaseScripts : s.at = 1 /\ Len(s.then.leases) \in {0, 1}}
WorkerUriScripts == {s \in UriScripts : s.at = 1 /\ s.then.kind = "json"}

InitWorker ==
  /\ env \in WorkerEnvs
  /\ InitShared
  /\ now = 0

NextWorker ==
  \/ \E p \in ReqIds, body \in WorkerBodies : posts < MaxJobs /\ Post(p, body)
  \/ \E p \in TickIds : Tick(p)
  \/ \E p \in ProcIds, answer \in ProbeAnswers : GateReturn(p, answer)
  \/ \E p \in ReqIds : Rpush(p)
  \/ \E p \in ReqIds : Llen(p)
  \/ \E p \in TickIds : Lpop(p)
  \/ \E p \in ProcIds, answer \in {"found", "missing_imported"} : RunKey(p, answer)
  \/ \E p \in ProcIds, answer \in {"create_fails", "created"} : RunCreate(p, answer)
  \/ \E p \in ProcIds, script \in WorkerLeaseScripts : RunLease(p, script)
  \/ \E p \in ProcIds, sent \in BOOLEAN : RunManifest(p, sent)
  \/ \E p \in ProcIds, script \in WorkerUriScripts : RunUri(p, script)
  \/ \E i \in 1..MaxTimers, closed \in BOOLEAN : TimerFire(i, closed)
  \/ ClockTick
  \/ Crash

SpecWorker == InitWorker /\ [][NextWorker]_vars

\* SpecLive: the queue worker under the scheduling the runtime and the surroundings
\* give it.  The interval keeps firing ticks; calls that were issued (probe, store,
\* marketplace tool) and pending teardowns do not all stay unanswered forever, so
\* handlers and runs go on to their end; and ticks that keep probing are answered
\* "available" again and again.  The process stays up and the clock is left alone.
LiveEnvs == {e \in WorkerEnvs : e.ENABLE_QUEUE}

Available == [kind |-> "json", status |-> "available"]

\* the step of process p that the answer to its pending call triggers
Proceed(p) ==
  \/ \E answer \in ProbeAnswers : GateReturn(p, answer)
  \/ Rpush(p)
  \/ Llen(p)
  \/ Lpop(p)
  \/ \E answer \in {"found", "missing_imported"} : RunKey(p, answer)
  \/ \E answer \in {"create_fails", "created"} : RunCreate(p, answer)
  \/ \E script \in WorkerLeaseScripts : RunLease(p, script)
  \/ \E sent \in BOOLEAN : RunManifest(p, sent)
  \/ \E script \in WorkerUriScripts : RunUri(p, script)

InitLive ==
  /\ env \in LiveEnvs
  /\ InitShared
  /\ now = 0

NextLive ==
  \/ \E p \in ReqIds, body \in WorkerBodies : posts < MaxJobs /\ Post(p, body)
  \/ \E p \in TickIds : Tick(p)
  \/ \E p \in ProcIds : Proceed(p)
  \/ \E i \in 1..MaxTimers, closed \in BOOLEAN : TimerFire(i, closed)

\* one answer to the pending call of p.  A step of Settle(p) is possible exactly
\* when a step of Proceed(p) is, and both end the wait for that call, so weak
\* fairness on Settle says no more than that pending calls do not all stay
\* unanswered forever; it does not say which answer comes.
LeaseGranted ==
  LET a == [kind |-> "json", leases |-> <<LeaseId(TARGET_PROVIDER)>>]
  IN [at |-> 1, before |-> a, then |-> a]
UriUp ==
  LET a == [kind |-> "json", uris |-> <<SERVICE_URI, "http://second">>]
  IN [at |-> 1, before |-> a, then |-> a]
Settle(p) ==
  \/ GateReturn(p, [kind |-> "json", status |-> "busy"])
  \/ Rpush(p)
  \/ Llen(p)
  \/ Lpop(p)
  \/ RunKey(p, "found")
  \/ RunCreate(p, "created")
  \/ RunLease(p, LeaseGranted)
  \/ RunManifest(p, TRUE)
  \/ RunUri(p, UriUp)

Fairness ==
  /\ WF_vars(\E p \in TickIds : Tick(p))
  /\ WF_vars(\/ \E p \in ProcIds : Settle(p)
             \/ \E i \in 1..MaxTimers : TimerFire(i, TRUE))
  /\ SF_vars(\E p \in TickIds : GateReturn(p, Available))

SpecLive == InitLive /\ [][NextLive]_vars /\ Fairness

\* SpecQueue: enqueue, dequeue and the admin clear, one operation after the other
JobA == [Destructure(Body("whisper", Undefined, "", "A")) EXCEPT !.at = 1000]
JobB == [Destructure(Body("sd", Num(30), "a@x", "B")) EXCEPT !.at = 2000]
JobC == [Destructure(Body("llama", Num(0), "", "C")) EXCEPT !.at = 2000]
QueueJobs == {JobA, JobB, JobC}

InitQueue ==
  /\ env \in {e \in Envs : /\ ~e.DRY_RUN /\ ~e.DISABLE_BUSY_CHECK /\ e.BUSY_CHECK # ""
                            /\ e.ENABLE_QUEUE /\ e.PROVIDER # "" /\ e.MNEMONIC = ""
                            /\ e.NOTIFY_URL = ""}
  /\ InitShared
  /\ now = 0

NextQueue ==
  \/ \E job \in QueueJobs : Enqueue(job)
  \/ Dequeue
  \/ \E t \in Tokens : AdminPost(t)
  \/ AdminDel

SpecQueue == InitQueue /\ [][NextQueue]_vars

(* ------------------------------- claims ------------------------------- *)
Recs == {proc[p] : p \in ProcIds} \cup {last.rec}
ShCalls ==
  {"sh:keys-show", "sh:keys-add", "sh:keys-show-2", "sh:create", "sh:lease-list",
   "sh:send-manifest", "sh:lease-status", "sh:close"}
ValidProduct(rec) == rec.job.product \in {"whisper", "sd", "llama"}
UriContains(uri, product) == \E i \in 1..Len(uri) : uri[i] = product

\* C1 as claimed: never two worker-initiated runs of runJob in progress at once.
C1_SingleFlight ==
  Cardinality({p \in TickIds : proc[p].pc \in RunPcs}) <= 1

\* C2: a POST / whose product is not whisper, sd or llama is answered 400
\* invalid_product in the step it arrives, having issued no external call and
\* scheduled no teardown, with the queue and the in-flight flag unchanged; no
\* request with such a product is ever in progress.
C2_InvalidProductNoEffect ==
  [][/\ \A p \in ReqIds : proc'[p].pc # "idle" => ValidProduct(proc'[p])
     /\ (last'.kind = "post" /\ ~ValidProduct(last'.rec)) =>
          /\ last'.status = 400 /\ last'.tag = "invalid_product"
          /\ last'.rec.calls = {} /\ ~last'.timer
          /\ proc[last'.p].pc = "idle"
          /\ queue' = queue /\ inFlight' = inFlight /\ timers' = timers]_vars

C2_Witness ==
  last.kind = "post" /\ last.rec.job.product = "bogus" /\ last.status = 400

\* C3 as claimed: with the dry-run flag set, every POST / with a valid product is
\* answered with a success status and a URI containing the product name, whatever
\* the gate reports, and neither sh nor a teardown is used.
C3_DryRunAlwaysUri ==
  (DRY_RUN /\ last.kind = "post" /\ ValidProduct(last.rec)) =>
    /\ last.status = 200 /\ last.tag = "ok"
    /\ UriContains(last.rec.uri, last.rec.job.product)
    /\ last.rec.calls \cap ShCalls = {} /\ ~last.timer

\* C3 as amended: with the dry-run flag set, every POST / with a valid product that
\* the gate admits is answered 200 ok with a URI containing the product name; one the
\* gate reports unavailable is answered busy, queued or queue_unavailable without a
\* URI; and in no case is sh invoked or a teardown scheduled.
C3_DryRunWhenAdmitted ==
  DRY_RUN =>
    /\ timers = <<>>
    /\ \A rec \in Recs : rec.calls \cap ShCalls = {}
    /\ (last.kind = "post" /\ ValidProduct(last.rec)) =>
         /\ ~last.timer
         /\ last.rec.avail = "yes" =>
              /\ last.status = 200 /\ last.tag = "ok"
              /\ UriContains(last.rec.uri, last.rec.job.product)
         /\ last.rec.avail # "yes" =>
              /\ last.tag \in {"busy", "queued", "queue_unavailable"}
              /\ last.rec.uri = <<>>

C3_Witness ==
  /\ DRY_RUN /\ last.kind = "post" /\ last.tag = "ok"
  /\ "probe" \in last.rec.calls /\ last.rec.job.product = "whisper"
  /\ UriContains(last.rec.uri, "whisper")

\* C4: on a configured store, what dequeue has returned since the last clear is, in
\* order, the first jobs that enqueue appended, and the queue holds the rest in
\* order; dequeue returns the oldest job still queued and removes it, and returns
\* absent (leaving the queue empty) when the queue is empty; enqueue returns the new
\* length.
C4_Fifo ==
  [][/\ redis' =>
          LET n == Len(fifo'.popped)
          IN /\ n <= Len(fifo'.pushed)
             /\ fifo'.popped = SubSeq(fifo'.pushed, 1, n)
             /\ Len(queue') = Len(fifo'.pushed) - n
             /\ \A i \in 1..Len(queue') :
                  JSONparse(queue'[i]) = [ok |-> TRUE, val |-> fifo'.pushed[n + i]]
     /\ (last'.kind = "dequeue" /\ redis) =>
          IF queue = <<>>
            THEN last'.tag = "null" /\ queue' = <<>> /\ fifo' = fifo
            ELSE /\ last'.tag = "job"
                 /\ last'.rec.job = fifo.pushed[Len(fifo.popped) + 1]
                 /\ Len(queue') = Len(queue) - 1
     /\ (last'.kind = "enqueue" /\ redis) =>
          /\ last'.tag = "return" /\ last'.position = Len(queue) + 1
          /\ fifo'.pushed = Append(fifo.pushed, last'.rec.job)]_vars

C4_Witness ==
  /\ redis /\ fifo.pushed = <<JobA, JobB, JobC>> /\ fifo.popped = <<JobA, JobB, JobC>>
  /\ queue = <<>> /\ last.kind = "dequeue" /\ last.rec.job = JobC

\* C5 as claimed: with the gate unavailable and queueing enabled, the answer is
\* "queued" with the length the queue had right after this job's own push (the
\* answer of its rpush) as the position.
C5_PositionIsLengthAfterInsert ==
  (last.kind = "post" /\ ValidProduct(last.rec) /\ last.rec.avail = "no" /\ ENABLE_QUEUE /\ redis) =>
    /\ last.tag = "queued"
    /\ last.position = last.rec.rpushReply

\* C6: a POST / with a valid product takes exactly one path.  Gate unavailable,
\* queueing off: 409 busy, nothing stored, nothing run.  Gate unavailable, queueing
\* on: 503 without a store (nothing stored, nothing run), else the job is pushed and
\* the answer is "queued", with nothing run.  Gate available: runJob, answered 200
\* when it returns and 500 when it throws, and no step of such a request changes the
\* queue or the in-flight flag.  The queue grows only by the push of a request that
\* was not admitted, and no request both pushes and runs.
C6_OnePath ==
  [][/\ \A p \in ReqIds :
          /\ ~({"rpush", "runJob"} \subseteq proc'[p].calls)
          /\ (proc'[p] # proc[p] /\ "runJob" \in proc'[p].calls) =>
               (queue' = queue /\ inFlight' = inFlight)
          /\ (proc'[p] # proc[p] /\ queue' # queue) =>
               /\ queue' = Append(queue, JSONstringify(proc[p].job))
               /\ proc'[p].rpushReply = Len(queue')
               /\ proc[p].avail = "no" /\ "rpush" \in proc[p].calls
               /\ ENABLE_QUEUE /\ redis
     /\ (last'.kind = "post" /\ ValidProduct(last'.rec)) =>
          LET calls == last'.rec.calls
          IN /\ last'.rec.avail \in {"yes", "no"}
             /\ ~({"rpush", "runJob"} \subseteq calls)
             /\ (last'.rec.avail = "no" /\ ~ENABLE_QUEUE) =>
                  /\ last'.status = 409 /\ last'.tag = "busy"
                  /\ calls \cap {"rpush", "runJob"} = {} /\ queue' = queue
             /\ (last'.rec.avail = "no" /\ ENABLE_QUEUE /\ ~redis) =>
                  /\ last'.status = 503 /\ last'.tag = "queue_unavailable"
                  /\ calls \cap {"rpush", "runJob"} = {} /\ queue' = queue
             /\ (last'.rec.avail = "no" /\ ENABLE_QUEUE /\ redis) =>
                  /\ last'.status = 200 /\ last'.tag = "queued"
                  /\ "rpush" \in calls /\ "runJob" \notin calls
             /\ last'.rec.avail = "yes" =>
                  /\ "runJob" \in calls /\ "rpush" \notin calls
                  /\ \/ last'.end = "ok" /\ last'.status = 200 /\ last'.tag = "ok"
                     \/ last'.end = "throw" /\ last'.status = 500 /\ last'.tag = "error"
                  /\ queue' = queue /\ inFlight' = inFlight]_vars

C6_Witness ==
  /\ last.kind = "post" /\ last.status = 500 /\ last.rec.avail = "yes"
  /\ "probe" \in last.rec.calls /\ ENABLE_QUEUE /\ redis /\ queue = <<>>

Authorized(t) == ADMIN_TOKEN # "" /\ t.present /\ t.v = ADMIN_TOKEN

\* C7: POST /admin/queue/clear goes on to clear the queue exactly when a token is
\* configured and the header carries that very token; in every other case (also an
\* empty header against no configured token) it answers 401 and the queue stays as
\* it is.  The clear empties the queue, and nothing but a dequeue or an authorized
\* clear ever shortens it.
C7_ClearNeedsToken ==
  [][/\ admin'.pc = "del" => Authorized(admin'.token)
     /\ (admin.pc = "idle" /\ (last'.kind = "admin" \/ admin'.pc = "del")) =>
          /\ queue' = queue
          /\ IF Authorized(admin'.token)
               THEN IF redis THEN admin'.pc = "del" ELSE last'.status = 200
               ELSE last'.status = 401 /\ last'.tag = "unauthorized" /\ admin'.pc = "idle"
     /\ (admin.pc = "del" /\ admin'.pc = "idle") =>
          /\ Authorized(admin.token)
          /\ queue' = <<>> /\ last'.kind = "admin" /\ last'.status = 200
     /\ (Len(queue') < Len(queue) /\ last'.kind # "dequeue") =>
          (admin.pc = "del" /\ Authorized(admin.token))]_vars

C7_Witness ==
  /\ ADMIN_TOKEN = "" /\ admin.token = Header("") /\ last.kind = "admin"
  /\ last.status = 401 /\ Len(queue) = 2

\* the attempts, of the first 30, at which a script answers with a lease of the
\* configured provider
HasLease(answer) ==
  answer.kind = "json" /\ \E i \in 1..Len(answer.leases) : answer.leases[i].provider = PROVIDER
LeaseHits(script) ==
  IF HasLease(script.then) THEN script.at..30
  ELSE IF HasLease(script.before) THEN 1..(script.at - 1) ELSE {}

\* C8: the lease list is polled at most 30 times.  When none of the 30 answers has a
\* lease of the configured provider, the run throws no_lease_from_provider after 30
\* polls, sends no manifest, schedules no teardown and ends (a direct request is
\* answered 500); it does not start over.  Otherwise it goes on with the lease after
\* as many polls as it took to see it.
C8_BoundedLeasePolling ==
  [][/\ \A p \in ProcIds : proc'[p].leasePolls <= 30
     /\ last'.rec.leasePolls <= 30
     /\ last'.error = "no_lease_from_provider" =>
          /\ last'.rec.leasePolls = 30 /\ last'.rec.lease = NoLease
          /\ "sh:send-manifest" \notin last'.rec.calls /\ ~last'.timer
          /\ last'.end = "throw" /\ proc'[last'.p] = Idle /\ timers' = timers
          /\ last'.kind = "post" => last'.status = 500
     /\ \A p \in ProcIds :
          (proc'[p].pc = "lease" /\ proc[p].pc # "lease") =>
            \A script \in LeaseScripts :
              LET step == RunLeaseStep(proc'[p], script)
              IN IF LeaseHits(script) = {}
                   THEN /\ step.end = "throw" /\ step.error = "no_lease_from_provider"
                        /\ step.rec.leasePolls = 30
                   ELSE /\ step.end = "no" /\ step.rec.pc = "manifest"
                        /\ step.rec.leasePolls \in LeaseHits(script)
                        /\ \A k \in LeaseHits(script) : step.rec.leasePolls <= k]_vars

C8_Witness ==
  /\ last.kind = "post" /\ last.status = 500 /\ last.error = "no_lease_from_provider"
  /\ last.rec.leasePolls = 30 /\ "sh:create" \in last.rec.calls

\* C9: a run has sent a manifest only if it created its deployment (it was past
\* "tx deployment create", polling for its dseq) and its poll found a lease whose
\* provider is the configured one; that lease is the one it holds and the manifest
\* goes to that provider, whatever other leases the answer lists, and in whatever order.
C9_ManifestToTargetOnly ==
  [][/\ \A p \in ProcIds :
          /\ "sh:send-manifest" \in proc'[p].calls =>
               /\ {"sh:create", "sh:lease-list"} \subseteq proc'[p].calls
               /\ proc'[p].dseq >= 0
               /\ PROVIDER # "" /\ proc'[p].lease.provider = PROVIDER
               /\ proc'[p].manifestTo = PROVIDER
          /\ ("sh:send-manifest" \in proc'[p].calls /\ "sh:send-manifest" \notin proc[p].calls) =>
               /\ proc[p].pc = "lease" /\ proc'[p].pc = "manifest"
               /\ \E i \in 1..Len(proc'[p].leases) : proc'[p].leases[i] = proc'[p].lease
          /\ proc'[p].pc \in {"lease", "manifest", "uri"} => "sh:create" \in proc'[p].calls
          /\ \A answer \in CreateAnswers \ {"created"} :
               RunCreate(p, answer) => (last'.end = "throw" /\ proc'[p] = Idle)
     /\ "sh:send-manifest" \in last'.rec.calls =>
          /\ "sh:create" \in last'.rec.calls
          /\ last'.rec.lease.provider = PROVIDER /\ last'.rec.manifestTo = PROVIDER]_vars

C9_Witness ==
  \E p \in ProcIds :
    /\ proc[p].pc = "manifest" /\ proc[p].manifestTo = PROVIDER
    /\ Len(proc[p].leases) = 3 /\ proc[p].leases[2].provider = OTHER_PROVIDER
    /\ proc[p].lease = proc[p].leases[3] /\ proc[p].leasePolls = 2

\* C10 as claimed: every teardown is set with a delay of max(1, minutes) * 60
\* seconds, so of at least 60 seconds.
C10_TeardownDelay ==
  \A i \in 1..Len(timers) : timers[i].delay >= 60 * 1000

\* C11 as claimed: a direct request's run never uses the same dseq (and hence the
\* same /tmp/<dseq>.yaml) as another run in progress, be that a second direct
\* request's or a worker's.
C11_DseqUnique ==
  \A p \in ReqIds, q \in ProcIds :
    (p # q /\ proc[p].dseq >= 0 /\ proc[q].dseq >= 0) => proc[p].dseq # proc[q].dseq

\* C12: the gate follows one policy.  With the busy check disabled or no probe URL
\* configured it answers available and never probes.  Otherwise a handler probes
\* once, and on the probe's answer the gate reports available exactly when the
\* answer decodes to status "available"; a failed fetch, a body that is not JSON and
\* any other status all give unavailable.
C12_GatePolicy ==
  [][\A p \in ProcIds :
       LET after == IF proc'[p].pc # "idle" THEN proc'[p] ELSE last'.rec
       IN /\ GateOpen =>
               /\ proc'[p].pc # "gate" /\ "probe" \notin proc'[p].calls
               /\ proc'[p].avail \in {"unknown", "yes"}
               /\ last'.rec.avail \in {"unknown", "yes"} /\ "probe" \notin last'.rec.calls
          /\ (~GateOpen /\ proc'[p].avail # "unknown") => "probe" \in proc'[p].calls
          /\ (~GateOpen /\ last'.rec.avail # "unknown") => "probe" \in last'.rec.calls
          /\ (proc'[p].pc = "gate" /\ proc'[p] # proc[p]) =>
               (proc[p].pc = "idle" /\ proc'[p].avail = "unknown")
          /\ \A answer \in ProbeAnswers :
               GateReturn(p, answer) =>
                 /\ after.avail = IF answer = [kind |-> "json", status |-> "available"]
                                    THEN "yes" ELSE "no"
                 /\ answer.kind \in {"network_error", "malformed"} => after.avail = "no"
                 /\ proc'[p].pc # "gate"]_vars

C12_Witness ==
  /\ last.kind = "post" /\ last.status = 409 /\ last.rec.avail = "no"
  /\ last.rec.calls = {"probe"} /\ ~DRY_RUN /\ BUSY_CHECK # ""

\* C13: at-most-once delivery.  The jobs handed to runJob by the worker are, in
\* order, the first jobs pushed, each handed over once, and the queue holds exactly
\* the jobs pushed and not yet handed over: a job is out of the queue in the very
\* step that hands it to runJob, also when two ticks overlap.  The queue grows only
\* by the push of a request; a worker run that ends, returning or throwing, and a
\* crash of the process leave the queue and the record of what was handed over as
\* they were, so no job is put back or run again.
C13_AtMostOnce ==
  [][/\ LET n == Len(fifo'.popped)
        IN /\ n <= Len(fifo'.pushed)
           /\ fifo'.popped = SubSeq(fifo'.pushed, 1, n)
           /\ queue' = [i \in 1..(Len(fifo'.pushed) - n) |-> JSONstringify(fifo'.pushed[n + i])]
     /\ \A p \in TickIds :
          LET after == IF proc'[p].pc # "idle" THEN proc'[p] ELSE last'.rec
              handed == /\ proc[p].pc = "lpop" /\ proc'[p] # proc[p]
                        /\ (proc'[p].pc # "idle" \/ last'.p = p) /\ "runJob" \in after.calls
          IN /\ handed =>
                  /\ queue # <<>> /\ queue' = Tail(queue)
                  /\ fifo'.popped = Append(fifo.popped, after.job)
                  /\ after.job = fifo.pushed[Len(fifo.popped) + 1]
             /\ (proc'[p].pc \in RunPcs /\ proc[p].pc \notin RunPcs) => handed
             /\ (proc[p].pc \in RunPcs /\ proc'[p] # proc[p]) =>
                  (queue' = queue /\ fifo' = fifo /\ proc'[p].job \in {proc[p].job, NoJob})
     /\ fifo'.popped # fifo.popped =>
          \E p \in TickIds : proc[p].pc = "lpop" /\ proc'[p] # proc[p]
     /\ Len(queue') > Len(queue) =>
          \E p \in ReqIds : proc[p].pc = "rpush" /\ proc'[p].pc = "llen"
     /\ last'.kind = "crash" => (queue' = queue /\ fifo' = fifo)]_vars

C13_Witness ==
  /\ Len(fifo.pushed) = 2 /\ fifo.popped = fifo.pushed /\ queue = <<>>
  /\ fifo.pushed[1].idem # fifo.pushed[2].idem
  /\ proc[<<"tick", 1>>].pc \in RunPcs /\ proc[<<"tick", 2>>].pc \in RunPcs
  /\ proc[<<"tick", 1>>].job # proc[<<"tick", 2>>].job

\* C14 as claimed: the in-flight flag is true whenever a tick has its dequeue issued
\* to the store, and no two ticks are at once between their flag check and the
\* answer to their dequeue.
C14_FlagBeforeDequeue ==
  /\ \A p \in TickIds : proc[p].pc = "lpop" => inFlight
  /\ Cardinality({p \in TickIds : proc[p].pc \in {"gate", "lpop"}}) <= 1

\* C15: the in-flight flag is released in all outcomes.  When a worker-initiated run
\* ends, returning or throwing, the flag is false; a tick that returns early
\* (queueing disabled, flag set, gate unavailable, empty queue) leaves the flag as it
\* was and never sets it; the flag becomes true only in the step in which a tick
\* hands a job to runJob, and it is true only while a worker-initiated run is in
\* progress, so no tick finds it set with no run left to clear it.  No step of a
\* direct request touches the flag.
C15_FlagReleased ==
  [][/\ inFlight' => \E p \in TickIds : proc'[p].pc \in RunPcs
     /\ (last'.kind = "worker" /\ last'.end \in {"ok", "throw"}) => ~inFlight'
     /\ (last'.kind = "worker" /\ last'.end = "noop") => inFlight' = inFlight
     /\ (inFlight' /\ ~inFlight) =>
          \E p \in TickIds : proc[p].pc = "lpop" /\ proc'[p].pc \in RunPcs
     /\ \A p \in ReqIds :
          (proc'[p] # proc[p] /\ last'.kind # "crash") => inFlight' = inFlight]_vars

C15_Witness ==
  /\ last.kind = "worker" /\ last.end = "throw" /\ last.tag = "queue_run_error"
  /\ "sh:create" \in last.rec.calls /\ ~inFlight
  /\ \A p \in TickIds : proc[p].pc = "idle"

\* C16: the frame of a worker tick.  With queueing disabled or the in-flight flag set
\* a tick returns at once, and with the gate reporting unavailable it returns on the
\* gate's answer: in each case the queue and the flag stay as they were and runJob
\* is not called.  Otherwise the tick issues one dequeue; only the step that gets
\* its answer changes the queue, by removing the head at most, and only that step
\* calls runJob, once, for the job it removed.
C16_TickFrame ==
  [][\A p \in TickIds :
       LET after == IF proc'[p].pc # "idle" THEN proc'[p] ELSE last'.rec
           stepOf == last'.kind # "crash" /\ (proc'[p] # proc[p] \/ last'.p = p)
       IN /\ (~ENABLE_QUEUE \/ inFlight) => TickStep(p) = Noop(Idle)
          /\ \A answer \in ProbeAnswers :
               ~gpuAvailable(answer) => AfterGateTick(proc[p], gpuAvailable(answer)).end = "noop"
          /\ stepOf =>
               /\ proc[p].pc # "lpop" => (queue' = queue /\ fifo' = fifo)
               /\ proc[p].pc = "lpop" =>
                    /\ queue' = IF queue = <<>> THEN queue ELSE Tail(queue)
                    /\ proc'[p].pc # "lpop"
               /\ proc'[p].pc = "lpop" => proc[p].pc \in {"idle", "gate"}
               /\ ("runJob" \in after.calls /\ "runJob" \notin proc[p].calls) =>
                    /\ proc[p].pc = "lpop" /\ queue # <<>>
                    /\ JSONstringify(after.job) = Head(queue)
               /\ (proc[p].pc = "idle" /\ (~ENABLE_QUEUE \/ inFlight)) =>
                    /\ last'.end = "noop" /\ proc'[p] = Idle /\ inFlight' = inFlight
                    /\ "runJob" \notin last'.rec.calls
               /\ (proc[p].pc = "gate" /\ after.avail = "no") =>
                    /\ last'.end = "noop" /\ proc'[p] = Idle /\ inFlight' = inFlight
                    /\ "runJob" \notin last'.rec.calls]_vars

C16_Witness ==
  /\ last.kind = "worker" /\ last.end = "noop" /\ last.rec.avail = "unknown"
  /\ inFlight /\ Len(queue) = 1
  /\ \E p \in TickIds : proc[p].pc \in RunPcs

\* a script of status answers yields an address within the 45 polls
HasUri(answer) == answer.kind = "json" /\ Len(answer.uris) > 0
UriFound(script) ==
  \/ HasUri(script.then) /\ script.at <= 45
  \/ HasUri(script.before) /\ script.at > 1

\* C17: endpoint discovery is a soft failure.  When none of the 45 status polls after
\* the manifest yields an address, the run returns (it does not throw) with an empty
\* URI after 45 polls, sends no notification and schedules its teardown; a direct
\* request is then answered 200.  A real run sends a notification only with an
\* address discovered and an email supplied, and every real run that returns ok has
\* scheduled a teardown for its dseq.
C17_UriSoftFailure ==
  [][/\ \A p \in ProcIds :
          /\ proc'[p].uriPolls <= 45
          /\ ("notify" \in proc'[p].calls /\ ~DRY_RUN) =>
               (proc'[p].uri # <<>> /\ proc'[p].job.email # "" /\ NOTIFY_URL # "")
          /\ (proc'[p].pc = "uri" /\ proc[p].pc # "uri") =>
               \A script \in UriScripts :
                 LET step == RunUriStep(proc'[p], script)
                 IN IF UriFound(script)
                      THEN /\ step.rec.uri = <<SERVICE_URI>> /\ step.end \in {"no", "ok"}
                           /\ step.end = "no" <=> (proc'[p].job.email # "" /\ NOTIFY_URL # "")
                           /\ step.end = "no" => (step.rec.pc = "notify" /\ "notify" \in step.rec.calls)
                      ELSE /\ step.end = "ok" /\ step.timer /\ step.status = 200
                           /\ step.rec.uri = <<>> /\ step.rec.uriPolls = 45
                           /\ "notify" \notin step.rec.calls
                           /\ "setTimeout" \in step.rec.calls
     /\ ("notify" \in last'.rec.calls /\ ~DRY_RUN) =>
          (last'.rec.uri # <<>> /\ last'.rec.job.email # "")
     /\ (last'.end = "ok" /\ ~DRY_RUN) =>
          /\ last'.timer /\ "sh:send-manifest" \in last'.rec.calls
          /\ timers' = Append(timers, Teardown(last'.rec))
          /\ timers'[Len(timers')].dseq = last'.rec.dseq
          /\ last'.kind = "post" => (last'.status = 200 /\ last'.tag = "ok")
          /\ last'.rec.uri = <<>> => (last'.rec.uriPolls = 45 /\ "notify" \notin last'.rec.calls)]_vars

C17_Witness ==
  /\ last.kind = "post" /\ last.status = 200 /\ ~DRY_RUN /\ last.rec.uri = <<>>
  /\ last.rec.uriPolls = 45 /\ last.rec.job.email = "a@x" /\ NOTIFY_URL # ""
  /\ last.timer /\ Len(timers) = 1 /\ "notify" \notin last.rec.calls

\* the errors of validation and configuration, and the calls that are the handler's
\* own and not the run's
FailFastErrors ==
  {"invalid_product", "PROVIDER_ADDR not set", "AKASH_MNEMONIC missing and key not found"}
HandlerCalls == {"probe", "lpop", "runJob"}

\* C18 as claimed: a run that fails with InvalidProduct, ProviderUnset or
\* IdentityUnavailable has invoked no command and made no other external call, and
\* has created no deployment.
C18_FailFast ==
  (last.end = "throw" /\ last.error \in FailFastErrors) =>
    /\ last.rec.calls \subseteq HandlerCalls
    /\ "sh:create" \notin last.rec.calls

\* C18 as amended: a run that fails with ProviderUnset has made no call at all; a run
\* that fails with IdentityUnavailable has invoked the key lookup ("keys show"), which
\* found no key, and nothing else; an invalid product is rejected by POST / with no
\* call made, and no run fails with InvalidProduct.  None of them has taken a dseq,
\* written a manifest file, created a deployment or scheduled a teardown.
C18_FailFastAfterLookup ==
  /\ last.error = "PROVIDER_ADDR not set" =>
       /\ last.end = "throw" /\ PROVIDER = "" /\ ~DRY_RUN
       /\ last.rec.calls \subseteq HandlerCalls
  /\ last.error = "AKASH_MNEMONIC missing and key not found" =>
       /\ last.end = "throw" /\ MNEMONIC = ""
       /\ "sh:keys-show" \in last.rec.calls
       /\ last.rec.calls \subseteq (HandlerCalls \cup {"sh:keys-show"})
  /\ last.error = "invalid_product" =>
       /\ last.end = "resp" /\ last.status = 400 /\ last.rec.calls = {}
  /\ last.error \in FailFastErrors =>
       /\ last.rec.dseq = -1 /\ ~last.timer
       /\ last.rec.calls \cap {"readFile", "writeFile", "sh:create", "setTimeout"} = {}
       /\ last.kind = "post" => last.status \in {400, 500}
  /\ \A p \in ProcIds : proc[p].pc # "idle" => ValidProduct(proc[p])
  /\ \A p \in ProcIds :
       proc[p].calls \cap (ShCalls \ {"sh:keys-show"}) # {} => (PROVIDER # "" /\ ~DRY_RUN)

C18_Witness ==
  /\ last.kind = "post" /\ last.status = 500
  /\ last.error = "AKASH_MNEMONIC missing and key not found"
  /\ last.rec.calls = {"probe", "runJob", "sh:keys-show"}

\* C19: queue drain.  With queueing enabled on a configured store, ticks firing
\* again and again, the gate answering available again and again and every run
\* coming to its end, the n-th job pushed is eventually handed to runJob by the
\* worker, for every n: no job stays in the queue forever.
C19_QueueDrains ==
  \A n \in 1..MaxJobs : (Len(fifo.pushed) >= n) ~> (Len(fifo.popped) >= n)

C19_Witness ==
  /\ Len(fifo.pushed) = 2 /\ fifo.popped = fifo.pushed /\ queue = <<>>
  /\ last.kind = "worker" /\ last.tag = "dequeue_done" /\ ~DRY_RUN
  /\ last.rec.job = fifo.pushed[2] /\ ~inFlight

\* C20: teardown only on success.  A teardown is scheduled only in the step in which
\* a real run returns, having sent its manifest and polled for its address.  A run
\* that throws once its deployment is created (no lease within the polls, or the
\* manifest not sent) ends with the error, schedules no teardown and issues no
\* deployment close; a close is issued only by a teardown that was scheduled.
C20_TeardownOnlyOnSuccess ==
  [][/\ Len(timers') > Len(timers) =>
          /\ last'.end = "ok" /\ last'.timer /\ ~DRY_RUN
          /\ {"sh:create", "sh:send-manifest", "sh:lease-status", "setTimeout"} \subseteq last'.rec.calls
          /\ timers' = Append(timers, Teardown(last'.rec))
     /\ (last'.end = "throw" /\ "sh:create" \in last'.rec.calls) =>
          /\ ~last'.timer /\ timers' = timers
          /\ last'.rec.calls \cap {"setTimeout", "sh:close"} = {}
          /\ proc'[last'.p] = Idle
          /\ last'.kind = "post" => last'.status = 500
     /\ \A p \in ProcIds :
          /\ proc'[p].calls \cap {"setTimeout", "sh:close"} = {}
          /\ RunManifest(p, FALSE) =>
               (last'.end = "throw" /\ proc'[p] = Idle /\ timers' = timers)
          /\ (proc[p].pc = "lease" /\ last'.error = "no_lease_from_provider") =>
               (last'.end = "throw" /\ proc'[p] = Idle /\ timers' = timers)
     /\ last'.kind = "timer" =>
          (Len(timers) > 0 /\ Len(timers') = Len(timers) - 1)]_vars

C20_Witness ==
  /\ last.kind = "post" /\ last.end = "throw" /\ last.status = 500
  /\ last.error = "exec_error" /\ "sh:send-manifest" \in last.rec.calls
  /\ last.rec.lease.provider = PROVIDER /\ timers = <<>>
====
